---- MODULE Spec2Model ----
(***************************************************************************)
(* Monte Carlo engine of experiment_core.py (generate_event, the two       *)
(* metric calculators, run_experiment) and the dashboard callback run_sim  *)
(* of gui_dashboard.py that calls it and derives the summary table.        *)
(*                                                                         *)
(* Numbers.  Python computes the metrics in floating point.  Here every    *)
(* metric is an integer number of hundredths (Scale), which is exact for   *)
(* the constants of the program (x/10, x/100, x*0.5, x*0.1) and for the    *)
(* alternative constants below.  A true division a / b whose result is not *)
(* a multiple of a hundredth (the per-trial averages, the means, the       *)
(* improvement) is kept as the exact fraction [num |-> a, den |-> b].      *)
(*                                                                         *)
(* Random source.  The module-level generator of Python's random is a      *)
(* deterministic function of its state; it is modelled by a full-period    *)
(* linear congruential generator over RngModulus states.                   *)
(***************************************************************************)
EXTENDS Integers, Sequences, FiniteSets, TLC

VARIABLES
    cfg,                \* the module-level configuration globals (experiment_core.py 20-55)
    rng,                \* state of the module-level random generator
    draws,              \* number of random() calls made by the process so far
    pc,                 \* position of the GUI thread: idle / trial / event / summary
    clicks,             \* number of times the Run Simulation button was pressed
    status,             \* text of status_label
    run,                \* run_experiment: outer loop variable
    event_index,        \* run_experiment: inner loop variable
    total_events,       \* run_experiment: total_events
    acc,                \* run_experiment: the six *_total accumulators
    ev,                 \* run_experiment: locals of the loop body (event and its metrics)
    baseline_results,   \* run_experiment: baseline_results
    optimized_results,  \* run_experiment: optimized_results
    sample_run_log,     \* run_experiment: sample_run_log
    event_distribution, \* run_experiment: event_distribution
    trace,              \* history: events generated by the current invocation, in order
    start_draws,        \* history: value of draws when the current invocation started
    returned,           \* run_sim: local results (what run_experiment returned)
    results,            \* run_sim.results
    table,              \* rows of results_table
    history,            \* history: the aggregate returned by each invocation, in order
    outcome             \* history: how the last callback ended

vars == <<cfg, rng, draws, pc, clicks, status, run, event_index, total_events, acc, ev,
          baseline_results, optimized_results, sample_run_log, event_distribution,
          trace, start_draws, returned, results, table, history, outcome>>

---------------------------------------------------------------------------
(* Bounds of the model *)

MaxClicks == 2
MaxCameras == 2
MaxDoorSensors == 2
MaxAlarmDevices == 1
MaxDuration == 3
MaxRuns == 2

---------------------------------------------------------------------------
(* Fixed point and the random generator *)

Scale == 100

RngModulus == 128
RngMultiplier == 37
RngIncrement == 11

\* random.seed(s)
Seed(s) == s % RngModulus

\* random.random(): the next state; the value returned is state / RngModulus
Random(s) == (RngMultiplier * s + RngIncrement) % RngModulus

---------------------------------------------------------------------------
(* Module-level configuration of experiment_core.py *)

RANDOM_SEED == 42
SAMPLE_LOG_LIMIT == 10

EVENT_TYPES ==
    << <<"camera_snapshot", 500, 15>>,
       <<"motion_event", 200, 10>>,
       <<"door_status", 5, 50>>,
       <<"alarm_trigger", 100, 5>>,
       <<"routine_ping", 2, 20>> >>

URGENT_TYPES == {"alarm_trigger", "motion_event"}

\* The constants of lines 20-55; probabilities, energy per kb and the
\* compression ratio in hundredths.
ReferenceConstants ==
    [ RANDOM_SEED |-> RANDOM_SEED,
      EVENT_TYPES |-> EVENT_TYPES,
      CLOUD_LATENCY_MS |-> 300,
      EDGE_LATENCY_MS |-> 50,
      CLOUD_BANDWIDTH_MBPS |-> 10,
      EDGE_BANDWIDTH_MBPS |-> 100,
      CLOUD_ENERGY_PER_KB |-> 50,
      EDGE_ENERGY_PER_KB |-> 10,
      EDGE_ALERT_METADATA_KB |-> 5,
      ROUTINE_COMPRESSION_RATIO |-> 50 ]

Sizing(c, d, a, m, r) ==
    [ MOTEL_CONFIG |-> [cameras |-> c, door_sensors |-> d, alarm_devices |-> a],
      SIMULATION_DURATION_MINUTES |-> m,
      MONTE_CARLO_RUNS |-> r ]

\* A record with the fields of both.
Merge(f, g) ==
    [k \in DOMAIN f \cup DOMAIN g |-> IF k \in DOMAIN f THEN f[k] ELSE g[k]]

\* Configurations inside the documented domain: the constants of the program,
\* and three variations of them that stay positive.
ConstantProfiles ==
    { ReferenceConstants,
      [ReferenceConstants EXCEPT !.RANDOM_SEED = 7],
      [ReferenceConstants EXCEPT !.EDGE_LATENCY_MS = 400],
      [ReferenceConstants EXCEPT !.EDGE_LATENCY_MS = 290, !.EDGE_BANDWIDTH_MBPS = 1] }

\* Variations outside the documented domain, one constant at a time.
OutOfDomainProfiles ==
    { [ReferenceConstants EXCEPT !.EVENT_TYPES = << >>],
      [ReferenceConstants EXCEPT !.EVENT_TYPES[3] = <<"door_status", 5, 0>>],
      [ReferenceConstants EXCEPT !.EVENT_TYPES = << <<"door_status", 5, 0>> >>],
      [ReferenceConstants EXCEPT !.EVENT_TYPES[5] = <<"routine_ping", 0, 20>>],
      [ReferenceConstants EXCEPT !.CLOUD_BANDWIDTH_MBPS = 0],
      [ReferenceConstants EXCEPT !.CLOUD_LATENCY_MS = 0],
      [ReferenceConstants EXCEPT !.CLOUD_ENERGY_PER_KB = 0],
      [ReferenceConstants EXCEPT !.ROUTINE_COMPRESSION_RATIO = 150] }

Sizings(minimum) ==
    { Sizing(c, d, a, m, r) :
        c \in 0..MaxCameras, d \in 0..MaxDoorSensors, a \in 0..MaxAlarmDevices,
        m \in minimum..MaxDuration, r \in minimum..MaxRuns }

Configs == { Merge(k, s) : k \in ConstantProfiles, s \in Sizings(1) }

AnyConfigs ==
    { Merge(k, s) : k \in ConstantProfiles \cup OutOfDomainProfiles, s \in Sizings(0) }

---------------------------------------------------------------------------
(* Event model: generate_event and random.choices *)

RECURSIVE SumSeq(_)
SumSeq(s) == IF s = << >> THEN 0 ELSE s[1] + SumSeq(Tail(s))

\* itertools.accumulate(weights)
Accumulate(weights) == [i \in DOMAIN weights |-> SumSeq(SubSeq(weights, 1, i))]

\* bisect.bisect(cum, u * total, 0, hi) for a draw u = r / RngModulus: the
\* number of the first hi entries of the sorted list cum that are <= u * total.
Bisect(cum, r, total, hi) ==
    Cardinality({i \in 1..hi : cum[i] * RngModulus <= r * total})

\* random.choices(range(len(weights)), weights=weights)[0], from generator
\* state s.  The checks of choices come before its draw.
Choices(weights, s) ==
    LET cum == Accumulate(weights)
        n == Len(weights)
    IN  IF n = 0 THEN [raised |-> "IndexError", index |-> 0, rng |-> s]
        ELSE IF cum[n] <= 0 THEN [raised |-> "ValueError", index |-> 0, rng |-> s]
        ELSE [raised |-> "none",
              index |-> Bisect(cum, Random(s), cum[n], n - 1),
              rng |-> Random(s)]

Urgency(name) == IF name \in URGENT_TYPES THEN 1 ELSE 0

\* generate_event(), from generator state s; index is 0-based as in Python
generate_event(event_types, s) ==
    LET weights == [i \in DOMAIN event_types |-> event_types[i][3]]
        c == Choices(weights, s)
    IN  IF c.raised # "none"
        THEN [raised |-> c.raised, name |-> "none", data_kb |-> 0, urgency |-> 0, rng |-> s]
        ELSE [raised |-> "none",
              name |-> event_types[c.index + 1][1],
              data_kb |-> event_types[c.index + 1][2],
              urgency |-> Urgency(event_types[c.index + 1][1]),
              rng |-> c.rng]

---------------------------------------------------------------------------
(* Metric calculators; latency and bandwidth and energy in hundredths *)

calculate_cloud_metrics(c, data_kb) ==
    IF c.CLOUD_BANDWIDTH_MBPS = 0
    THEN [raised |-> "ZeroDivisionError", latency |-> 0, bandwidth |-> 0, energy |-> 0]
    ELSE [raised |-> "none",
          latency |-> c.CLOUD_LATENCY_MS * Scale
                        + (data_kb * Scale) \div c.CLOUD_BANDWIDTH_MBPS,
          bandwidth |-> data_kb * Scale,
          energy |-> data_kb * c.CLOUD_ENERGY_PER_KB]

\* variant: the transfer time multiplies by the bandwidth instead of dividing
calculate_edge_metrics_times(c, event_name, data_kb, urgency) ==
    [raised |-> "none",
     latency |-> c.EDGE_LATENCY_MS * Scale + data_kb * Scale * c.EDGE_BANDWIDTH_MBPS,
     bandwidth |-> IF urgency = 1
                   THEN c.EDGE_ALERT_METADATA_KB * Scale
                   ELSE data_kb * c.ROUTINE_COMPRESSION_RATIO,
     energy |-> data_kb * c.EDGE_ENERGY_PER_KB]

\* variant: every event is compressed, urgent or not
calculate_edge_metrics_compress_all(c, event_name, data_kb, urgency) ==
    [raised |-> "none",
     latency |-> c.EDGE_LATENCY_MS * Scale
                   + (data_kb * Scale) \div c.EDGE_BANDWIDTH_MBPS,
     bandwidth |-> data_kb * c.ROUTINE_COMPRESSION_RATIO,
     energy |-> data_kb * c.EDGE_ENERGY_PER_KB]

calculate_edge_metrics(c, event_name, data_kb, urgency) ==
    IF c.EDGE_BANDWIDTH_MBPS = 0
    THEN [raised |-> "ZeroDivisionError", latency |-> 0, bandwidth |-> 0, energy |-> 0]
    ELSE [raised |-> "none",
          latency |-> c.EDGE_LATENCY_MS * Scale
                        + (data_kb * Scale) \div c.EDGE_BANDWIDTH_MBPS,
          bandwidth |-> IF urgency = 1
                        THEN c.EDGE_ALERT_METADATA_KB * Scale
                        ELSE data_kb * c.ROUTINE_COMPRESSION_RATIO,
          energy |-> data_kb * c.EDGE_ENERGY_PER_KB]

---------------------------------------------------------------------------
(* Monte Carlo driver: the pieces of run_experiment *)

TotalDevices(c) ==
    c.MOTEL_CONFIG.cameras + c.MOTEL_CONFIG.door_sensors + c.MOTEL_CONFIG.alarm_devices

TotalEvents(c) == TotalDevices(c) * c.SIMULATION_DURATION_MINUTES

\* event_distribution = {e[0]: 0 for e in EVENT_TYPES}
NewDistribution(event_types) ==
    [n \in {event_types[i][1] : i \in DOMAIN event_types} |-> 0]

\* variant: event_distribution[name] = 1
CountEventAssign(dist, name) == [dist EXCEPT ![name] = 1]

\* event_distribution[name] += 1
CountEvent(dist, name) == [dist EXCEPT ![name] = @ + 1]

\* variant: the accumulators are set up once, before the outer loop
NewTotalsCarried(old) == old

\* the six assignments at the head of the outer loop body
NewTotals(old) ==
    [base_lat_total |-> 0, opt_lat_total |-> 0,
     base_bw_total |-> 0, opt_bw_total |-> 0,
     base_en_total |-> 0, opt_en_total |-> 0]

\* the six += of the inner loop body
AddTotals(t, b, o) ==
    [base_lat_total |-> t.base_lat_total + b.latency,
     opt_lat_total |-> t.opt_lat_total + o.latency,
     base_bw_total |-> t.base_bw_total + b.bandwidth,
     opt_bw_total |-> t.opt_bw_total + o.bandwidth,
     base_en_total |-> t.base_en_total + b.energy,
     opt_en_total |-> t.opt_en_total + o.energy]

\* One entry of sample_run_log.  The metrics are already whole hundredths, so
\* round(x, 2) leaves them as they are.
SampleEntry(g, b, o) ==
    [event |-> g.name, data_kb |-> g.data_kb, urgency |-> g.urgency,
     baseline_latency |-> b.latency, optimized_latency |-> o.latency,
     baseline_bandwidth |-> b.bandwidth, optimized_bandwidth |-> o.bandwidth]

\* variant: the test on the trial index is missing
LogSampleEveryTrial(log, r, i, entry) ==
    IF i < SAMPLE_LOG_LIMIT THEN Append(log, entry) ELSE log

\* if run == 0 and event_index < 10: sample_run_log.append(...)
LogSample(log, r, i, entry) ==
    IF r = 0 /\ i < SAMPLE_LOG_LIMIT THEN Append(log, entry) ELSE log

\* a / b for b # 0, as an exact fraction
Div(a, b) == [num |-> a, den |-> b]

BaselineAverage(t, n) ==
    <<Div(t.base_lat_total, n), Div(t.base_bw_total, n), Div(t.base_en_total, n)>>

OptimizedAverage(t, n) ==
    <<Div(t.opt_lat_total, n), Div(t.opt_bw_total, n), Div(t.opt_en_total, n)>>

\* variant: res.insert(0, ...)
AppendTrialFirst(res, avg) == <<avg>> \o res

\* baseline_results.append(...), optimized_results.append(...)
AppendTrial(res, avg) == Append(res, avg)

\* the dictionary run_experiment returns
ResultAggregate ==
    [baseline |-> baseline_results,
     optimized |-> optimized_results,
     event_distribution |-> event_distribution,
     sample_log |-> sample_run_log,
     total_events |-> total_events]

NoEvent ==
    [name |-> "none", data_kb |-> 0, urgency |-> 0,
     lat_b |-> 0, bw_b |-> 0, en_b |-> 0, lat_o |-> 0, bw_o |-> 0, en_o |-> 0]

Ended(exception, where) == [raised |-> exception, at |-> where]

gui == <<status, returned, results, table>>
engine == <<run, event_index, total_events, acc, ev, baseline_results,
            optimized_results, sample_run_log, event_distribution>>

---------------------------------------------------------------------------
(* Initial states: the module has been imported and the window built *)

InitWith(configs) ==
    /\ cfg \in configs
    /\ rng = Seed(cfg.RANDOM_SEED)
    /\ draws = 0
    /\ pc = "idle"
    /\ clicks = 0
    /\ status = "Status: Ready"
    /\ run = 0
    /\ event_index = 0
    /\ total_events = 0
    /\ acc = NewTotals(<< >>)
    /\ ev = NoEvent
    /\ baseline_results = << >>
    /\ optimized_results = << >>
    /\ sample_run_log = << >>
    /\ event_distribution = << >>
    /\ trace = << >>
    /\ start_draws = 0
    /\ returned = << >>
    /\ results = << >>
    /\ table = << >>
    /\ history = << >>
    /\ outcome = Ended("none", "none")

Init == InitWith(Configs)

InitAnyConfig == InitWith(AnyConfigs)

---------------------------------------------------------------------------
(* Actions *)

\* The Run Simulation button: run_sim up to the call of run_experiment, and
\* run_experiment up to its outer loop.
RunSim ==
    /\ pc = "idle"
    /\ clicks < MaxClicks
    /\ clicks' = clicks + 1
    /\ status' = "Status: Running Simulation..."
    /\ baseline_results' = << >>
    /\ optimized_results' = << >>
    /\ sample_run_log' = << >>
    /\ event_distribution' = NewDistribution(cfg.EVENT_TYPES)
    /\ total_events' = TotalEvents(cfg)
    /\ run' = 0
    /\ trace' = << >>
    /\ start_draws' = draws
    /\ outcome' = Ended("none", "none")
    /\ pc' = "trial"
    /\ UNCHANGED <<cfg, rng, draws, event_index, acc, ev, returned, results, table, history>>

\* for run in range(MONTE_CARLO_RUNS): the next trial begins
TrialStart ==
    /\ pc = "trial"
    /\ run < cfg.MONTE_CARLO_RUNS
    /\ acc' = NewTotals(acc)
    /\ event_index' = 0
    /\ pc' = "event"
    /\ UNCHANGED <<cfg, rng, draws, clicks, run, total_events, ev, baseline_results,
                   optimized_results, sample_run_log, event_distribution, trace,
                   start_draws, history, outcome>>
    /\ UNCHANGED gui

\* one iteration of for event_index in range(total_events)
EventStep ==
    /\ pc = "event"
    /\ event_index < total_events
    /\ LET g == generate_event(cfg.EVENT_TYPES, rng)
           b == calculate_cloud_metrics(cfg, g.data_kb)
           o == calculate_edge_metrics(cfg, g.name, g.data_kb, g.urgency)
       IN  IF g.raised # "none"
           THEN /\ pc' = "idle"
                /\ outcome' = Ended(g.raised, "generate_event")
                /\ UNCHANGED <<rng, draws, trace, engine>>
           ELSE /\ rng' = g.rng
                /\ draws' = draws + 1
                /\ trace' = Append(trace, [name |-> g.name, data_kb |-> g.data_kb,
                                           urgency |-> g.urgency])
                /\ event_distribution' = CountEvent(event_distribution, g.name)
                /\ IF b.raised # "none" \/ o.raised # "none"
                   THEN /\ pc' = "idle"
                        /\ outcome' = Ended("ZeroDivisionError", "metrics")
                        /\ UNCHANGED <<acc, ev, sample_run_log, event_index>>
                   ELSE /\ acc' = AddTotals(acc, b, o)
                        /\ ev' = [name |-> g.name, data_kb |-> g.data_kb,
                                  urgency |-> g.urgency,
                                  lat_b |-> b.latency, bw_b |-> b.bandwidth,
                                  en_b |-> b.energy,
                                  lat_o |-> o.latency, bw_o |-> o.bandwidth,
                                  en_o |-> o.energy]
                        /\ sample_run_log' =
                              LogSample(sample_run_log, run, event_index,
                                        SampleEntry(g, b, o))
                        /\ event_index' = event_index + 1
                        /\ UNCHANGED <<pc, outcome>>
                /\ UNCHANGED <<run, total_events, baseline_results, optimized_results>>
    /\ UNCHANGED <<cfg, clicks, start_draws, history>>
    /\ UNCHANGED gui

\* the inner loop is over: the two appends that end the trial
TrialEnd ==
    /\ pc = "event"
    /\ event_index >= total_events
    /\ IF total_events = 0
       THEN /\ pc' = "idle"
            /\ outcome' = Ended("ZeroDivisionError", "average")
            /\ UNCHANGED <<run, baseline_results, optimized_results>>
       ELSE /\ baseline_results' =
                  AppendTrial(baseline_results, BaselineAverage(acc, total_events))
            /\ optimized_results' =
                  AppendTrial(optimized_results, OptimizedAverage(acc, total_events))
            /\ run' = run + 1
            /\ pc' = "trial"
            /\ UNCHANGED outcome
    /\ UNCHANGED <<cfg, rng, draws, clicks, event_index, total_events, acc, ev,
                   sample_run_log, event_distribution, trace, start_draws, history>>
    /\ UNCHANGED gui

\* the outer loop is over: run_experiment returns to run_sim
Return ==
    /\ pc = "trial"
    /\ run >= cfg.MONTE_CARLO_RUNS
    /\ returned' = <<ResultAggregate>>
    /\ history' = Append(history, ResultAggregate)
    /\ pc' = "summary"
    /\ UNCHANGED <<cfg, rng, draws, clicks, status, results, table, trace, start_draws,
                   outcome>>
    /\ UNCHANGED engine

---------------------------------------------------------------------------
(* Summary derivation of run_sim *)

\* statistics.mean([x[k] for x in rows]) for a non-empty list of fractions
\* over one denominator (every row of a run is divided by total_events)
Mean(rows, k) ==
    [num |-> SumSeq([i \in DOMAIN rows |-> rows[i][k].num]),
     den |-> rows[1][k].den * Len(rows)]

IsZero(x) == x.num = 0

\* ((base - opt) / base) * 100 for base # 0; the two means of a metric are
\* fractions over the same denominator, which cancels
Improvement(base, opt) ==
    [num |-> (base.num - opt.num) * 100, den |-> base.num]

\* run_sim after run_experiment has returned: the six means, the three
\* improvements, the table, the charts, the status and run_sim.results.
\* An exception leaves the callback; the main loop of the window goes on.
Summarize ==
    /\ pc = "summary"
    /\ pc' = "idle"
    /\ LET r == returned[1]
       IN  IF r.baseline = << >>
           THEN /\ outcome' = Ended("StatisticsError", "mean")
                /\ UNCHANGED <<status, results, table>>
           ELSE LET base_lat == Mean(r.baseline, 1)
                    opt_lat == Mean(r.optimized, 1)
                    base_bw == Mean(r.baseline, 2)
                    opt_bw == Mean(r.optimized, 2)
                    base_en == Mean(r.baseline, 3)
                    opt_en == Mean(r.optimized, 3)
                IN  IF IsZero(base_lat) \/ IsZero(base_bw) \/ IsZero(base_en)
                    THEN /\ outcome' = Ended("ZeroDivisionError", "improvement")
                         /\ UNCHANGED <<status, results, table>>
                    ELSE /\ table' =
                              << <<"Latency", base_lat, opt_lat,
                                   Improvement(base_lat, opt_lat)>>,
                                 <<"Bandwidth", base_bw, opt_bw,
                                   Improvement(base_bw, opt_bw)>>,
                                 <<"Energy", base_en, opt_en,
                                   Improvement(base_en, opt_en)>> >>
                         /\ status' = "Status: Simulation Complete"
                         /\ results' = r
                         /\ outcome' = Ended("none", "done")
    /\ UNCHANGED <<cfg, rng, draws, clicks, returned, trace, start_draws, history>>
    /\ UNCHANGED engine

Next ==
    \/ RunSim
    \/ TrialStart
    \/ EventStep
    \/ TrialEnd
    \/ Return
    \/ Summarize

Spec == Init /\ [][Next]_vars

SpecAnyConfig == InitAnyConfig /\ [][Next]_vars

TypeOK ==
    /\ pc \in {"idle", "trial", "event", "summary"}
    /\ rng \in 0..(RngModulus - 1)
    /\ clicks \in 0..MaxClicks
    /\ Len(history) <= clicks

---------------------------------------------------------------------------
(* Vocabulary of the properties *)

Min(a, b) == IF a < b THEN a ELSE b

\* a configuration that the documented error taxonomy accepts
ValidConfig(c) ==
    /\ c.EVENT_TYPES # << >>
    /\ \A i \in DOMAIN c.EVENT_TYPES : c.EVENT_TYPES[i][2] > 0 /\ c.EVENT_TYPES[i][3] > 0
    /\ c.SIMULATION_DURATION_MINUTES > 0
    /\ c.MONTE_CARLO_RUNS > 0
    /\ c.CLOUD_LATENCY_MS > 0 /\ c.EDGE_LATENCY_MS > 0
    /\ c.CLOUD_BANDWIDTH_MBPS > 0 /\ c.EDGE_BANDWIDTH_MBPS > 0
    /\ c.ROUTINE_COMPRESSION_RATIO > 0 /\ c.ROUTINE_COMPRESSION_RATIO <= 100

DeviceSum ==
    cfg.MOTEL_CONFIG.cameras + cfg.MOTEL_CONFIG.door_sensors
        + cfg.MOTEL_CONFIG.alarm_devices

\* total of the counters of an event_distribution
DistTotal(d) == SumSeq([i \in 1..Len(cfg.EVENT_TYPES) |-> d[cfg.EVENT_TYPES[i][1]]])

InRun == pc \in {"trial", "event"}

\* the events of the current invocation numbered from..to, in generation order
Events(from, to) == SubSeq(trace, from, to)

\* the events of trial k (1-based) of the current invocation
TrialEvents(k) == Events((k - 1) * total_events + 1, k * total_events)

\* what the two strategies make of one generated event
Cloud(e) == calculate_cloud_metrics(cfg, e.data_kb)
Edge(e) == calculate_edge_metrics(cfg, e.name, e.data_kb, e.urgency)

\* the six sums of the metrics over a sequence of events
SumsOver(es) ==
    [base_lat_total |-> SumSeq([i \in DOMAIN es |-> Cloud(es[i]).latency]),
     opt_lat_total |-> SumSeq([i \in DOMAIN es |-> Edge(es[i]).latency]),
     base_bw_total |-> SumSeq([i \in DOMAIN es |-> Cloud(es[i]).bandwidth]),
     opt_bw_total |-> SumSeq([i \in DOMAIN es |-> Edge(es[i]).bandwidth]),
     base_en_total |-> SumSeq([i \in DOMAIN es |-> Cloud(es[i]).energy]),
     opt_en_total |-> SumSeq([i \in DOMAIN es |-> Edge(es[i]).energy])]

---------------------------------------------------------------------------
(* C1 *)

\* C1: two invocations of run_experiment in one process under the same
\* configuration and seed (the Run Simulation button pressed twice) return
\* identical aggregates, field for field.
C1_Determinism == \A i, j \in DOMAIN history : history[i] = history[j]

---------------------------------------------------------------------------
(* C2 *)

\* C2: under an invalid configuration the run fails before any event is
\* generated and returns no aggregate, complete or partial.
C2_InvalidConfigAborts ==
    ~ValidConfig(cfg) => (draws = 0 /\ history = << >> /\ results = << >>)

---------------------------------------------------------------------------
(* C3 *)

\* C3: events_per_trial is duration_minutes times the sum of the device
\* counts, the same for every trial; the counters of event_distribution grow
\* by exactly events_per_trial during each trial; after the run they sum to
\* trial_count x events_per_trial.
C3_CountInvariant ==
    /\ clicks > 0 => total_events = cfg.SIMULATION_DURATION_MINUTES * DeviceSum
    /\ pc = "trial" => DistTotal(event_distribution) = run * total_events
    /\ pc = "event" => DistTotal(event_distribution) = run * total_events + event_index
    /\ \A k \in DOMAIN history :
          /\ history[k].total_events = cfg.SIMULATION_DURATION_MINUTES * DeviceSum
          /\ DistTotal(history[k].event_distribution)
                = cfg.MONTE_CARLO_RUNS * history[k].total_events

C3_Witness ==
    /\ history # << >>
    /\ cfg.MONTE_CARLO_RUNS >= 2
    /\ history[1].total_events >= 2
    /\ DistTotal(history[1].event_distribution) = 2 * history[1].total_events

---------------------------------------------------------------------------
(* C4 *)

\* C4: sample_trace never holds more than 10 entries; during trial 0 it holds
\* the events generated so far up to 10; from the end of trial 0 on, and in
\* the aggregate returned, it holds exactly min(10, events_per_trial) entries,
\* which are the first events of trial 0 in generation order.
C4_SampleTrace ==
    /\ Len(sample_run_log) <= 10
    /\ (pc = "event" /\ run = 0) => Len(sample_run_log) = Min(10, event_index)
    /\ (InRun /\ run >= 1) => Len(sample_run_log) = Min(10, total_events)
    /\ pc = "summary" =>
          /\ Len(returned[1].sample_log) = Min(10, total_events)
          /\ \A i \in DOMAIN returned[1].sample_log :
                /\ returned[1].sample_log[i].event = trace[i].name
                /\ returned[1].sample_log[i].data_kb = trace[i].data_kb
                /\ returned[1].sample_log[i].urgency = trace[i].urgency
                /\ returned[1].sample_log[i].baseline_latency = Cloud(trace[i]).latency
                /\ returned[1].sample_log[i].optimized_latency = Edge(trace[i]).latency

C4_Witness ==
    /\ pc = "summary"
    /\ total_events > 10
    /\ Len(returned[1].baseline) >= 2
    /\ Len(returned[1].sample_log) = 10

---------------------------------------------------------------------------
(* C5 *)

DominancePremise ==
    /\ cfg.EDGE_LATENCY_MS < cfg.CLOUD_LATENCY_MS
    /\ cfg.EDGE_BANDWIDTH_MBPS > cfg.CLOUD_BANDWIDTH_MBPS

\* x <= y for two fractions with positive denominators
FractionLeq(x, y) == x.num * y.den <= y.num * x.den

\* C5: when the optimized base latency is below the baseline one and the
\* optimized bandwidth constant above the baseline one, every generated event
\* has optimized latency <= baseline latency, and so has every trial average.
C5_Dominance ==
    DominancePremise =>
        /\ ev.lat_o <= ev.lat_b
        /\ \A i \in DOMAIN sample_run_log :
              sample_run_log[i].optimized_latency <= sample_run_log[i].baseline_latency
        /\ InRun => acc.opt_lat_total <= acc.base_lat_total
        /\ \A k \in DOMAIN optimized_results :
              /\ k \in DOMAIN baseline_results
              /\ FractionLeq(optimized_results[k][1], baseline_results[k][1])

C5_Witness ==
    /\ DominancePremise
    /\ ev.name # "none"
    /\ ev.lat_o < ev.lat_b
    /\ Len(optimized_results) >= 2

---------------------------------------------------------------------------
(* C6 *)

\* C6: urgency is true exactly for motion and alarm events; an urgent event's
\* optimized bandwidth is the urgent-metadata constant whatever its data_kb,
\* any other event's is data_kb times the routine compression ratio.
C6_UrgentBandwidth ==
    /\ ev.name # "none" =>
          /\ ev.urgency = 1 <=> ev.name \in {"motion_event", "alarm_trigger"}
          /\ ev.urgency \in {0, 1}
          /\ ev.urgency = 1 => ev.bw_o = cfg.EDGE_ALERT_METADATA_KB * Scale
          /\ ev.urgency = 0 => ev.bw_o = ev.data_kb * cfg.ROUTINE_COMPRESSION_RATIO
    /\ \A i \in DOMAIN sample_run_log :
          LET e == sample_run_log[i]
          IN  /\ e.urgency = 1 <=> e.event \in {"motion_event", "alarm_trigger"}
              /\ e.urgency = 1 =>
                    e.optimized_bandwidth = cfg.EDGE_ALERT_METADATA_KB * Scale
              /\ e.urgency = 0 =>
                    e.optimized_bandwidth = e.data_kb * cfg.ROUTINE_COMPRESSION_RATIO

C6_Witness ==
    /\ \E i \in DOMAIN sample_run_log :
          /\ sample_run_log[i].event = "alarm_trigger"
          /\ sample_run_log[i].optimized_bandwidth # sample_run_log[i].baseline_bandwidth
    /\ \E i \in DOMAIN sample_run_log : sample_run_log[i].event = "motion_event"
    /\ \E i \in DOMAIN sample_run_log : sample_run_log[i].urgency = 0

---------------------------------------------------------------------------
(* C7 *)

\* C7: when the baseline mean of a metric is zero, the summary derivation
\* surfaces "improvement undefined"; the callback does not end in a division
\* failure.
C7_ZeroBaselineSurfaced ==
    (/\ pc = "idle"
     /\ outcome.at \in {"improvement", "done"}
     /\ \E k \in 1..3 : IsZero(Mean(returned[1].baseline, k)))
        => outcome.raised = "none"

---------------------------------------------------------------------------
(* C8 *)

C8_Lengths ==
    /\ Len(baseline_results) = Len(optimized_results)
    /\ InRun => Len(baseline_results) = run
    /\ pc = "summary" =>
          /\ Len(returned[1].baseline) = cfg.MONTE_CARLO_RUNS
          /\ Len(returned[1].optimized) = cfg.MONTE_CARLO_RUNS
    /\ \A k \in DOMAIN history :
          /\ Len(history[k].baseline) = cfg.MONTE_CARLO_RUNS
          /\ Len(history[k].optimized) = cfg.MONTE_CARLO_RUNS

\* within one invocation a step keeps every entry already appended and
\* appends at most one, and only when a trial completes
C8_AppendOnly ==
    pc # "idle" =>
        /\ \A k \in DOMAIN baseline_results :
              /\ k \in DOMAIN baseline_results'
              /\ baseline_results'[k] = baseline_results[k]
        /\ \A k \in DOMAIN optimized_results :
              /\ k \in DOMAIN optimized_results'
              /\ optimized_results'[k] = optimized_results[k]
        /\ Len(baseline_results') <= Len(baseline_results) + 1
        /\ Len(baseline_results') = Len(baseline_results) + 1
              <=> (pc = "event" /\ pc' = "trial")

\* C8: baseline and optimized always have equal length, the number of
\* completed trials; one entry is appended to each when a trial completes;
\* an entry once appended is never modified or removed; at return both hold
\* exactly trial_count entries.
C8_AppendedOncePerTrial == []C8_Lengths /\ [][C8_AppendOnly]_vars

C8_Witness ==
    /\ pc = "summary"
    /\ Len(returned[1].baseline) >= 2
    /\ returned[1].baseline[1] # returned[1].baseline[2]

---------------------------------------------------------------------------
(* C9 *)

\* C9: a run with a valid configuration always runs to its end, with no
\* early exit: when the callback is over, run_experiment has returned after
\* exactly trial_count x events_per_trial event generations and draws.
C9_ValidRunCompletes ==
    (ValidConfig(cfg) /\ clicks > 0 /\ pc = "idle") =>
        /\ Len(history) = clicks
        /\ Len(trace) = cfg.MONTE_CARLO_RUNS * total_events
        /\ draws - start_draws = cfg.MONTE_CARLO_RUNS * total_events

\* The draws of a run are made in trial-major order, one per event generated.
TrialMajorOrder ==
    /\ pc = "event" =>
          /\ Len(trace) = run * total_events + event_index
          /\ draws - start_draws = Len(trace)
    /\ pc = "trial" =>
          /\ Len(trace) = run * total_events
          /\ draws - start_draws = Len(trace)

---------------------------------------------------------------------------
(* C10 *)

\* C10: the six accumulators restart from zero in every trial: during a
\* trial they hold the sums over the events of that trial generated so far,
\* and every appended average is the sum over the events of its own trial
\* divided by events_per_trial; event_distribution alone counts across trials.
C10_PerTrialSums ==
    /\ pc = "event" =>
          acc = SumsOver(Events(run * total_events + 1, run * total_events + event_index))
    /\ (InRun \/ pc = "summary") =>
          /\ \A k \in DOMAIN baseline_results :
                baseline_results[k] = BaselineAverage(SumsOver(TrialEvents(k)), total_events)
          /\ \A k \in DOMAIN optimized_results :
                optimized_results[k] = OptimizedAverage(SumsOver(TrialEvents(k)), total_events)
          /\ \A n \in DOMAIN event_distribution :
                event_distribution[n]
                    = Cardinality({i \in DOMAIN trace : trace[i].name = n})

C10_Witness ==
    /\ pc = "trial"
    /\ Len(baseline_results) = 2
    /\ total_events >= 2
    /\ baseline_results[1] # baseline_results[2]

====
